---------------------------- MODULE Spec2Model ----------------------------
(***************************************************************************)
(* Model of pickbasic-lsp/editors/vscode/src/extension.ts: the VS Code     *)
(* extension entry points activate() and deactivate() around one module-   *)
(* level LanguageClient slot.                                              *)
(*                                                                         *)
(* Strings that are matched character by character (glob pattern, file     *)
(* paths) are sequences of one-character strings.                          *)
(*                                                                         *)
(* The LanguageClient, the workspace configuration and the file watcher    *)
(* belong to vscode / vscode-languageclient; they are the environment of   *)
(* the shim.  Their steps (a start or a stop settling, a document opening, *)
(* a file changing) are separate actions with nondeterministic outcome.    *)
(***************************************************************************)
EXTENDS Integers, Sequences, FiniteSets, TLC

VARIABLES
    client,         \* the module-level slot: Undefined or the index of a session
    sessions,       \* every LanguageClient constructed so far, in creation order
    config,         \* the setting pickbasic.server.pythonPath
    activateRet,    \* what each activate() call returned to the host, per session
    deactivateRet,  \* what the last deactivate() call returned to the host
    event           \* the last document / file event seen by the editor

vars == <<client, sessions, config, activateRet, deactivateRet, event>>

----------------------------------------------------------------------------
(* Bounds *)

MaxSessions == 2        \* activate() calls in one run
MaxStopCalls == 2       \* stop() requests on one session
MaxDepth == 2           \* directories above a watched file

----------------------------------------------------------------------------
(* let client: LanguageClient | undefined *)

Undefined == 0

(* The setting pickbasic.server.pythonPath: unset, or set to a string. *)
Unset == [set |-> FALSE, value |-> ""]

CustomPaths == {"/opt/venv/bin/python", ""}

Configs == {Unset} \cup {[set |-> TRUE, value |-> p] : p \in CustomPaths}

(* WorkspaceConfiguration.get<T>(section, defaultValue): the value of the  *)
(* setting, or defaultValue when the setting has no value.                 *)
Get(cfg, defaultValue) == IF cfg.set THEN cfg.value ELSE defaultValue

PythonPathWrongDefault(cfg) == Get(cfg, "python")

(* const pythonPath = workspace.getConfiguration("pickbasic")              *)
(*                             .get<string>("server.pythonPath","python3") *)
PythonPath(cfg) == Get(cfg, "python3")

ServerOptionsFixedCommand(pythonPath) ==
    [command |-> "python3", args |-> <<"-m", "pickbasic_lsp">>]

(* const serverOptions = { command: pythonPath, args: [...] } *)
ServerOptions(pythonPath) ==
    [command |-> pythonPath, args |-> <<"-m", "pickbasic_lsp">>]

----------------------------------------------------------------------------
(* Document selector *)

NoField == "<absent>"

DocumentSelectorLanguageOnly == << [scheme |-> NoField, language |-> "pickbasic"] >>

(* documentSelector: [{ scheme: "file", language: "pickbasic" }] *)
DocumentSelector == << [scheme |-> "file", language |-> "pickbasic"] >>

(* A DocumentFilter matches a document when every field the filter gives   *)
(* equals the document's; a selector matches when one of its filters does. *)
FilterMatches(f, doc) ==
    /\ f.scheme = NoField \/ f.scheme = doc.scheme
    /\ f.language = NoField \/ f.language = doc.language

SelectorMatches(selector, doc) ==
    \E i \in DOMAIN selector : FilterMatches(selector[i], doc)

Schemes == {"file", "untitled", "git"}
Languages == {"pickbasic", "plaintext", "python"}
Documents == [scheme : Schemes, language : Languages]

----------------------------------------------------------------------------
(* File-watch glob *)

GlobPatternNoBasic ==
    <<"*","*","/","*",".","{","b","p",",","b",",","b","a","s","}">>

(* workspace.createFileSystemWatcher("**/*.{bp,b,bas,basic}") *)
GlobPattern ==
    <<"*","*","/","*",".","{","b","p",",","b",",","b","a","s",",",
      "b","a","s","i","c","}">>

From(s, i) == SubSeq(s, i, Len(s))

RECURSIVE IndexOf(_, _, _)
(* least index >= i of character ch in s, or 0 *)
IndexOf(ch, s, i) ==
    IF i > Len(s) THEN 0
    ELSE IF s[i] = ch THEN i
    ELSE IndexOf(ch, s, i + 1)

RECURSIVE SplitBy(_, _)
(* the pieces of s between occurrences of ch *)
SplitBy(s, ch) ==
    LET k == IndexOf(ch, s, 1)
    IN  IF k = 0 THEN <<s>>
        ELSE <<SubSeq(s, 1, k - 1)>> \o SplitBy(From(s, k + 1), ch)

RECURSIVE GlobMatch(_, _)
(* Glob matching as the editor's file watcher does it:                     *)
(*   a leading "**/" matches zero or more whole path segments,             *)
(*   "*" matches zero or more characters other than "/",                   *)
(*   "{a,b}" matches one of the alternatives,                              *)
(*   any other character matches itself; the whole path must be consumed.  *)
GlobMatch(p, s) ==
    IF p = <<>> THEN s = <<>>
    ELSE IF Len(p) >= 3 /\ SubSeq(p, 1, 3) = <<"*", "*", "/">> THEN
        \/ GlobMatch(From(p, 4), s)
        \/ \E i \in 1..Len(s) : s[i] = "/" /\ GlobMatch(From(p, 4), From(s, i + 1))
    ELSE IF p[1] = "*" THEN
        \E k \in 0..Len(s) :
            /\ \A j \in 1..k : s[j] # "/"
            /\ GlobMatch(Tail(p), From(s, k + 1))
    ELSE IF p[1] = "{" THEN
        LET close == IndexOf("}", p, 1)
            alts == SplitBy(SubSeq(p, 2, close - 1), ",")
        IN  \E a \in DOMAIN alts : GlobMatch(alts[a] \o From(p, close + 1), s)
    ELSE
        /\ s # <<>>
        /\ s[1] = p[1]
        /\ GlobMatch(Tail(p), Tail(s))

(* File names: a stem followed by an ending. *)
Stems == { <<>>, <<"a">>, <<"x", ".", "b">> }

Endings ==
    { <<>>,
      <<".", "b", "p">>, <<".", "b">>, <<".", "b", "a", "s">>,
      <<".", "b", "a", "s", "i", "c">>,
      <<".", "t", "x", "t">>, <<".", "b", "a">>, <<".", "b", "a", "s", "i">>,
      <<".", "b", "p", "x">>, <<".", "b", "a", "s", "i", "c", "s">>,
      <<"b", "p">>, <<"b">>, <<".", "B">>, <<".", "B", "P">>,
      <<".", "b", ".", "t", "x", "t">>, <<".", "t", "x", "t", ".", "b">>,
      <<".", "b", "~">> }

FileNames == { st \o e : st \in Stems, e \in Endings } \ { <<>> }

DirNames == { <<"s", "r", "c">>, <<"d", ".", "b">> }

RECURSIVE DirPrefixes(_)
(* the directory prefixes of at most n levels, each ending in "/" *)
DirPrefixes(n) ==
    IF n = 0 THEN { <<>> }
    ELSE LET shorter == DirPrefixes(n - 1)
         IN  shorter \cup { d \o <<"/">> \o rest : d \in DirNames, rest \in shorter }

Roots == { <<>>, <<"/">> }

Paths == { r \o d \o f : r \in Roots, d \in DirPrefixes(MaxDepth), f \in FileNames }

----------------------------------------------------------------------------
(* Return values handed to the host.  A promise is named by the session    *)
(* and the position of the promise in that session's record.               *)

RetNone == [kind |-> "none", sess |-> 0, idx |-> 0]             \* never called
RetUndefined == [kind |-> "undefined", sess |-> 0, idx |-> 0]
RetStartPromise(s) == [kind |-> "startPromise", sess |-> s, idx |-> 0]
RetStopPromise(s, i) == [kind |-> "stopPromise", sess |-> s, idx |-> i]
RetResolved(s) == [kind |-> "resolved", sess |-> s, idx |-> 0]  \* Promise.resolve()
RetCaught(s, i) == [kind |-> "caught", sess |-> s, idx |-> i]   \* p.catch(() => {})

----------------------------------------------------------------------------
(* The LanguageClient as the shim sees it.                                 *)
(*   state  : "initial", "starting", "running", "startFailed", "stopping", *)
(*            "stopped"                                                    *)
(*   proc   : "none" (never spawned), "live", "exited"                     *)
(*   startP : the promise returned by start(): "none", "pending",          *)
(*            "resolved", "rejected"                                       *)
(*   stopPs : the promises returned by stop(), oldest first                *)
(*   stopCalls : how many times stop() was requested                       *)
(*   startCalls : how many times start() was requested                     *)
(*   stopWhileStarting : stop() was requested before the start had settled *)

(* new LanguageClient(id, name, serverOptions, clientOptions) *)
NewLanguageClient(serverOptions, clientOptions) ==
    [command |-> serverOptions.command,
     args |-> serverOptions.args,
     documentSelector |-> clientOptions.documentSelector,
     fileEvents |-> clientOptions.fileEvents,
     state |-> "initial", proc |-> "none",
     startP |-> "none", stopPs |-> <<>>, stopCalls |-> 0,
     startCalls |-> 0, stopWhileStarting |-> FALSE]

StartTwice(r) ==
    [r EXCEPT !.state = "starting", !.startP = "pending", !.startCalls = @ + 2]

(* client.start(): the start sequence is under way when the call returns *)
Start(r) ==
    [r EXCEPT !.state = "starting", !.startP = "pending", !.startCalls = @ + 1]

HasPendingStop(r) == \E i \in DOMAIN r.stopPs : r.stopPs[i] = "pending"

SettleStops(r, how) ==
    [i \in DOMAIN r.stopPs |-> IF r.stopPs[i] = "pending" THEN how ELSE r.stopPs[i]]

(* client.stop(): the possible results, each the session after the call    *)
(* and the position of the promise the call returns.                       *)
(*   running     : shutdown begins, a new pending promise                  *)
(*   stopping    : the promise of the stop already under way               *)
(*   starting    : either the call is refused (a rejected promise) or the  *)
(*                 stop waits for the start to finish (a pending promise)  *)
(*   stopped, startFailed : nothing to do, a resolved promise              *)
StopOutcomes(r) ==
    LET called == [r EXCEPT !.stopCalls = @ + 1,
                            !.stopWhileStarting = @ \/ r.state = "starting"]
        fresh(status, st) ==
            [session |-> [called EXCEPT !.stopPs = Append(@, status), !.state = st],
             idx |-> Len(r.stopPs) + 1]
    IN  IF r.state = "running" THEN { fresh("pending", "stopping") }
        ELSE IF r.state = "stopping" \/ (r.state = "starting" /\ HasPendingStop(r))
             THEN { [session |-> called, idx |-> Len(r.stopPs)] }
        ELSE IF r.state = "starting"
             THEN { fresh("rejected", "starting"), fresh("pending", "starting") }
        ELSE { fresh("resolved", r.state) }

----------------------------------------------------------------------------
(* extension.ts *)

ClientOptions ==
    [documentSelector |-> DocumentSelector, fileEvents |-> GlobPattern]

OnDidChangeConfigurationRestart(ss, cfg) ==
    [s \in DOMAIN ss |->
        [ss[s] EXCEPT !.command = Get(cfg, "python3"),
                      !.state = "starting", !.startP = "pending",
                      !.startCalls = @ + 1]]

(* activate() subscribes to no configuration change: when the setting is   *)
(* edited the sessions stay as they were created.                          *)
OnDidChangeConfiguration(ss, cfg) == ss

AssignClientIfAbsent(c, s) == IF c = Undefined THEN s ELSE c

(* client = new LanguageClient(...): the slot is overwritten, whatever it  *)
(* held.                                                                   *)
AssignClient(c, s) == s

(* activate() has no return statement: the promise of client.start() is    *)
(* discarded and the host receives undefined.                              *)
ActivateReturn(s) == RetUndefined

DeactivateReturnAlwaysPromise(c, idx) == RetStopPromise(c, idx)

DeactivateReturnSwallow(c, idx) ==
    IF c = Undefined THEN RetUndefined ELSE RetCaught(c, idx)

DeactivateReturnEager(c, idx) ==
    IF c = Undefined THEN RetUndefined ELSE RetResolved(c)

(* return client?.stop(): undefined when the slot is empty, else the       *)
(* promise stop() returned.                                                *)
DeactivateReturn(c, idx) ==
    IF c = Undefined THEN RetUndefined ELSE RetStopPromise(c, idx)

(* export function activate(context) *)
Activate ==
    /\ Len(sessions) < MaxSessions
    /\ LET pythonPath == PythonPath(config)
           serverOptions == ServerOptions(pythonPath)
           clientOptions == ClientOptions
           s == Len(sessions) + 1
       IN  /\ sessions' = Append(sessions,
                                 Start(NewLanguageClient(serverOptions, clientOptions)))
           /\ client' = AssignClient(client, s)
           /\ activateRet' = Append(activateRet, ActivateReturn(s))
    /\ UNCHANGED <<config, deactivateRet, event>>

(* export function deactivate(): Thenable<void> | undefined *)
Deactivate ==
    IF client = Undefined
    THEN /\ deactivateRet' = DeactivateReturn(client, 0)
         /\ UNCHANGED <<client, sessions, config, activateRet, event>>
    ELSE /\ sessions[client].stopCalls < MaxStopCalls
         /\ \E o \in StopOutcomes(sessions[client]) :
               /\ sessions' = [sessions EXCEPT ![client] = o.session]
               /\ deactivateRet' = DeactivateReturn(client, o.idx)
         /\ UNCHANGED <<client, config, activateRet, event>>

----------------------------------------------------------------------------
(* Environment: the start or the stop of a session settles; the user edits *)
(* the setting.                                                            *)

StartSucceeds(s) ==
    /\ sessions[s].state = "starting"
    /\ LET r == sessions[s]
       IN  sessions' = [sessions EXCEPT ![s] =
              [r EXCEPT !.proc = "live", !.startP = "resolved",
                        !.state = IF HasPendingStop(r) THEN "stopping" ELSE "running"]]
    /\ UNCHANGED <<client, config, activateRet, deactivateRet, event>>

StartFails(s) ==
    /\ sessions[s].state = "starting"
    /\ LET r == sessions[s]
       IN  sessions' = [sessions EXCEPT ![s] =
              [r EXCEPT !.state = "startFailed", !.startP = "rejected",
                        !.stopPs = SettleStops(r, "rejected")]]
    /\ UNCHANGED <<client, config, activateRet, deactivateRet, event>>

StopSucceeds(s) ==
    /\ sessions[s].state = "stopping"
    /\ LET r == sessions[s]
       IN  sessions' = [sessions EXCEPT ![s] =
              [r EXCEPT !.state = "stopped", !.proc = "exited",
                        !.stopPs = SettleStops(r, "resolved")]]
    /\ UNCHANGED <<client, config, activateRet, deactivateRet, event>>

StopFails(s) ==
    /\ sessions[s].state = "stopping"
    /\ \E p \in {"live", "exited"} :
          LET r == sessions[s]
          IN  sessions' = [sessions EXCEPT ![s] =
                 [r EXCEPT !.state = "stopped", !.proc = p,
                           !.stopPs = SettleStops(r, "rejected")]]
    /\ UNCHANGED <<client, config, activateRet, deactivateRet, event>>

SetConfig(c) ==
    /\ c # config
    /\ config' = c
    /\ sessions' = OnDidChangeConfiguration(sessions, c)
    /\ UNCHANGED <<client, activateRet, deactivateRet, event>>

(* Events of the editor.  An event waits (handled = FALSE) until the       *)
(* editor dispatches it against the options the session was created with.  *)
NoEvent == [kind |-> "none", scheme |-> "", language |-> "", path |-> <<>>,
            handled |-> FALSE, matched |-> FALSE]

DocEvent(doc) ==
    [kind |-> "doc", scheme |-> doc.scheme, language |-> doc.language,
     path |-> <<>>, handled |-> FALSE, matched |-> FALSE]

FileEvent(path) ==
    [kind |-> "file", scheme |-> "", language |-> "", path |-> path,
     handled |-> FALSE, matched |-> FALSE]

(* A document is opened: it comes under the session when the session's     *)
(* document selector matches it.                                           *)
DidOpen ==
    /\ client # Undefined
    /\ event.kind = "doc" /\ ~event.handled
    /\ event' = [event EXCEPT
                   !.handled = TRUE,
                   !.matched = SelectorMatches(sessions[client].documentSelector,
                                   [scheme |-> event.scheme,
                                    language |-> event.language])]
    /\ UNCHANGED <<client, sessions, config, activateRet, deactivateRet>>

(* A file changes on disk: the watcher created by activate() reports it    *)
(* when its glob matches the path.                                         *)
FileChanged ==
    /\ client # Undefined
    /\ event.kind = "file" /\ ~event.handled
    /\ event' = [event EXCEPT
                   !.handled = TRUE,
                   !.matched = GlobMatch(sessions[client].fileEvents, event.path)]
    /\ UNCHANGED <<client, sessions, config, activateRet, deactivateRet>>

----------------------------------------------------------------------------
(* Specifications *)

Init ==
    /\ client = Undefined
    /\ sessions = <<>>
    /\ config \in Configs
    /\ activateRet = <<>>
    /\ deactivateRet = RetNone
    /\ event = NoEvent

Next ==
    \/ Activate
    \/ Deactivate
    \/ \E s \in DOMAIN sessions : StartSucceeds(s)
    \/ \E s \in DOMAIN sessions : StartFails(s)
    \/ \E s \in DOMAIN sessions : StopSucceeds(s)
    \/ \E s \in DOMAIN sessions : StopFails(s)

Spec == Init /\ [][Next]_vars

(* The configuration side: the user edits the setting before, between and  *)
(* after activations while the sessions start.                             *)
NextConfig ==
    \/ Activate
    \/ \E c \in Configs : SetConfig(c)
    \/ \E s \in DOMAIN sessions : StartSucceeds(s)
    \/ \E s \in DOMAIN sessions : StartFails(s)

SpecConfig == Init /\ [][NextConfig]_vars

(* The editor side: one document or file event, drawn at the start, is     *)
(* dispatched against the sessions activate() creates.                    *)
InitEvents ==
    /\ client = Undefined
    /\ sessions = <<>>
    /\ config \in Configs
    /\ activateRet = <<>>
    /\ deactivateRet = RetNone
    /\ event \in {DocEvent(doc) : doc \in Documents}
                  \cup {FileEvent(path) : path \in Paths}

NextEvents ==
    \/ Activate
    \/ DidOpen
    \/ FileChanged

SpecEvents == InitEvents /\ [][NextEvents]_vars

TypeOK ==
    /\ client \in 0..MaxSessions
    /\ Len(sessions) <= MaxSessions
    /\ client = Len(sessions)
    /\ config \in Configs
    /\ Len(activateRet) = Len(sessions)

----------------------------------------------------------------------------
(* Properties *)

(* How a value returned to the host has settled. *)
PromiseStatus(ret) ==
    IF ret.kind = "stopPromise" THEN sessions[ret.sess].stopPs[ret.idx]
    ELSE IF ret.kind = "startPromise" THEN sessions[ret.sess].startP
    ELSE IF ret.kind = "resolved" THEN "resolved"
    ELSE IF ret.kind = "caught"
         THEN IF sessions[ret.sess].stopPs[ret.idx] = "pending" THEN "pending"
              ELSE "resolved"
    ELSE "none"

IsPromise(ret) == ret.kind \in {"stopPromise", "startPromise", "resolved", "caught"}

DeactivationResolved ==
    IsPromise(deactivateRet) /\ PromiseStatus(deactivateRet) = "resolved"

(* C1: once activate() has been called and the completion returned by a    *)
(* following deactivate() has resolved (no activate() since), the slot     *)
(* client is undefined again and that session's subprocess is not running. *)
C1_SlotAbsentAfterDeactivate ==
    (DeactivationResolved /\ deactivateRet.sess = Len(sessions))
        => /\ client = Undefined
           /\ sessions[deactivateRet.sess].proc # "live"

(* C2: in every reachable state the slot is undefined or holds a session   *)
(* whose subprocess is running; it never holds a session that has not      *)
(* spawned yet, failed to start or has stopped.                            *)
C2_SlotAbsentOrLive ==
    client = Undefined \/ sessions[client].proc = "live"

(* C3: a second activate() with no deactivate() in between creates no      *)
(* second session: at most one session exists that was never asked to      *)
(* stop, and at most one subprocess pairing is alive.                      *)
C3_AtMostOneSession ==
    Cardinality({s \in DOMAIN sessions : sessions[s].stopCalls = 0}) <= 1

(* C4: deactivate() with the slot undefined returns undefined, requests no *)
(* stop, touches no session and leaves the slot undefined.                 *)
C4_DeactivateAbsentNoOp ==
    [][(client = Undefined /\ Deactivate)
          => /\ deactivateRet' = RetUndefined
             /\ sessions' = sessions
             /\ client' = Undefined]_vars

C4_Witness ==
    /\ client = Undefined
    /\ deactivateRet = RetUndefined
    /\ sessions = <<>>

(* C5: when the start of a session rejects, the host observes the          *)
(* rejection through activate(): the value activate() returned for that    *)
(* session is the start promise.                                           *)
C5_StartFailureReachesHost ==
    \A s \in DOMAIN sessions :
        sessions[s].startP = "rejected" => activateRet[s] = RetStartPromise(s)

(* C6: with a session in the slot, deactivate() requests stop on it and    *)
(* returns a completion of that stop; the completion is resolved only when *)
(* the stop was requested and the session is no longer starting, running   *)
(* or stopping.                                                            *)
C6_ResolvesOnlyAfterStop ==
    IsPromise(deactivateRet) =>
        LET r == sessions[deactivateRet.sess]
        IN  /\ r.stopCalls >= 1
            /\ PromiseStatus(deactivateRet) = "resolved"
                  => r.state \in {"stopped", "startFailed"}

C6_Witness ==
    /\ deactivateRet.kind = "stopPromise"
    /\ PromiseStatus(deactivateRet) = "resolved"
    /\ sessions[deactivateRet.sess].state = "stopped"
    /\ sessions[deactivateRet.sess].proc = "exited"

(* the session an activate() step has just created *)
Created(ss) == ss[Len(ss)]

(* C7: an activate() that runs while pickbasic.server.pythonPath is unset  *)
(* launches the server with command "python3".                             *)
C7_DefaultCommand ==
    [][(Len(sessions') = Len(sessions) + 1 /\ ~config.set)
          => Created(sessions').command = "python3"]_vars

C7_Witness ==
    /\ ~config.set
    /\ \E s \in DOMAIN sessions : sessions[s].command = "python3"

(* C8: an activate() that runs while pickbasic.server.pythonPath is set    *)
(* builds launch parameters whose command is the configured value and      *)
(* whose args are ["-m", "pickbasic_lsp"], whatever the value.             *)
C8_CustomCommand ==
    [][(Len(sessions') = Len(sessions) + 1 /\ config.set)
          => /\ Created(sessions').command = config.value
             /\ Created(sessions').args = <<"-m", "pickbasic_lsp">>]_vars

C8_Witness ==
    \A p \in CustomPaths :
        \E s \in DOMAIN sessions :
            /\ sessions[s].command = p
            /\ sessions[s].args = <<"-m", "pickbasic_lsp">>

(* C9: a document is matched by the session's document selector exactly    *)
(* when its scheme is "file" and its language id is "pickbasic".           *)
C9_SelectorMatch ==
    (event.kind = "doc" /\ event.handled)
        => (event.matched <=> (event.scheme = "file" /\ event.language = "pickbasic"))

C9_Witness ==
    /\ event.kind = "doc" /\ event.handled /\ event.matched
    /\ event.scheme = "file" /\ event.language = "pickbasic"

WatchedEndings ==
    { <<".", "b", "p">>, <<".", "b">>, <<".", "b", "a", "s">>,
      <<".", "b", "a", "s", "i", "c">> }

EndsWith(s, e) ==
    Len(s) >= Len(e) /\ SubSeq(s, Len(s) - Len(e) + 1, Len(s)) = e

Slashes(s) == Cardinality({i \in DOMAIN s : s[i] = "/"})

(* the last segment of a path *)
BaseName(s) ==
    LET cut == {i \in DOMAIN s : s[i] = "/"}
    IN  IF cut = {} THEN s
        ELSE From(s, (CHOOSE i \in cut : \A j \in cut : j <= i) + 1)

(* C10: a changed file is matched by the watcher's glob, at any directory  *)
(* depth, exactly when its name ends in .bp, .b, .bas or .basic.           *)
C10_GlobMatch ==
    (event.kind = "file" /\ event.handled)
        => (event.matched <=> \E e \in WatchedEndings : EndsWith(BaseName(event.path), e))

C10_Witness ==
    /\ event.kind = "file" /\ event.handled /\ event.matched
    /\ Slashes(event.path) >= 2
    /\ EndsWith(event.path, <<".", "b", "a", "s", "i", "c">>)

(* the value activate() returned for session s is in the host's hands: a   *)
(* plain value at once, a promise when it has settled                      *)
Delivered(s) ==
    \/ activateRet[s].kind = "undefined"
    \/ IsPromise(activateRet[s]) /\ PromiseStatus(activateRet[s]) # "pending"

(* C11: when the start of a session succeeds, the handshake has completed  *)
(* by the time the result of activate() is delivered to the host: no start *)
(* completes after the result of its activate() was already delivered.     *)
C11_StartedWhenActivateReturns ==
    [][\A s \in DOMAIN sessions :
          (sessions[s].startP = "pending" /\ sessions'[s].startP = "resolved")
              => ~Delivered(s)]_vars

(* C12: a stop is requested at most once per session: after activate(),    *)
(* deactivate(), a further deactivate() requests no stop.                  *)
C12_StopRequestedAtMostOnce ==
    \A s \in DOMAIN sessions : sessions[s].stopCalls <= 1

Last(seq) == seq[Len(seq)]

(* C13: when the stop requested by the last deactivate() on the session in *)
(* the slot has rejected, the completion deactivate() returned to the host *)
(* is rejected too: the failure is neither caught nor replaced.            *)
C13_StopFailureReachesHost ==
    (/\ client # Undefined
     /\ sessions[client].stopCalls >= 1
     /\ Last(sessions[client].stopPs) = "rejected")
        => /\ IsPromise(deactivateRet)
           /\ deactivateRet.sess = client
           /\ PromiseStatus(deactivateRet) = "rejected"

C13_Witness ==
    /\ deactivateRet.kind = "stopPromise"
    /\ PromiseStatus(deactivateRet) = "rejected"
    /\ sessions[deactivateRet.sess].state = "stopped"
    /\ sessions[deactivateRet.sess].startP = "resolved"

(* C14: every session created by activate() has had start() requested     *)
(* exactly once, also after its start has failed, and there is one session *)
(* per activate() call.                                                    *)
C14_OneStartPerActivate ==
    /\ Len(sessions) = Len(activateRet)
    /\ \A s \in DOMAIN sessions : sessions[s].startCalls = 1

C14_Witness ==
    \E s \in DOMAIN sessions :
        /\ sessions[s].state = "startFailed"
        /\ sessions[s].startP = "rejected"
        /\ sessions[s].startCalls = 1

(* C15: a step that changes pickbasic.server.pythonPath leaves the command *)
(* and args of every session already created as they were and requests no  *)
(* new start.                                                              *)
C15_ConfigReadOnce ==
    [][config' # config
          => \A s \in DOMAIN sessions :
                /\ sessions'[s].command = sessions[s].command
                /\ sessions'[s].args = sessions[s].args
                /\ sessions'[s].startCalls = sessions[s].startCalls
                /\ sessions'[s].state = sessions[s].state]_vars

C15_Witness ==
    \E s \in DOMAIN sessions :
        /\ sessions[s].command # PythonPath(config)
        /\ sessions[s].state = "running"
        /\ sessions[s].startCalls = 1

Settled(r) ==
    /\ r.startP \in {"resolved", "rejected"}
    /\ ~HasPendingStop(r)

(* C16: when deactivate() was invoked while the start of the session was   *)
(* still pending, stop was requested on that session, and once the start   *)
(* and the stop have both settled its subprocess is not running.           *)
C16_NoProcessLeftAfterEarlyStop ==
    \A s \in DOMAIN sessions :
        (sessions[s].stopWhileStarting /\ Settled(sessions[s]))
            => /\ sessions[s].stopCalls >= 1
               /\ sessions[s].proc # "live"

(* C17: the slot always refers to the session of the most recent           *)
(* activate(), and a stop is only ever requested on that session: a        *)
(* session that has been superseded receives no stop request.              *)
C17_StopOnlyOnLatest ==
    /\ client = Len(sessions)
    /\ [][/\ client' = Len(sessions')
          /\ \A s \in DOMAIN sessions :
                sessions'[s].stopCalls # sessions[s].stopCalls
                    => (s = client /\ s = Len(sessions))]_vars

C17_Witness ==
    /\ Len(sessions) = 2
    /\ client = 2
    /\ sessions[2].stopCalls >= 1
    /\ sessions[1].stopCalls = 0
    /\ sessions[1].proc = "live"

=============================================================================
